---------------------------- MODULE Spec2Model ----------------------------
(***************************************************************************)
(* Model of the sevseg display-state engine (src/sevseg.go): construction, *)
(* the numeric formatters, direct segment injection, the text buffer and   *)
(* its scroll window, brightness control and the multiplexing refresh.     *)
(* Segment masks are uint8 values 0..255, buffer index k of the Go slices  *)
(* is index k+1 of the sequences used here.                                *)
(***************************************************************************)
EXTENDS Integers, Sequences, FiniteSets, TLC

VARIABLES
    phase,                  \* "new" | "ready" | "nil" | "panicked"
    config,                 \* SevSeg.config: "CommonAnode" | "CommonCathode"
    pwm,                    \* SevSeg.pwm: "SoftwarePWM" | "HardwarePWM"
    useLeadingZeros,        \* SevSeg.useLeadingZeros
    digitPins,              \* one pin state per digit pin
    segmentPins,            \* one pin state per segment pin
    enabled,                \* SevSeg.enabled
    brightness,             \* SevSeg.brightness
    scrollPosition,         \* SevSeg.scrollPosition
    textPattern,            \* SevSeg.textPattern
    pwmCounter,             \* SevSeg.pwmCounter
    currentDigitToRefresh,  \* SevSeg.currentDigitToRefresh
    updatedDisplay,         \* SevSeg.updatedDisplay
    last,                   \* the last call made: operation, arguments, result
    control                 \* the last brightness-control call, its argument
                            \* (for On the brightness it found stored), and for
                            \* each Refresh since whether a digit line was
                            \* energized and which one (the latest pwmPeriod
                            \* of them)

cfgVars     == <<config, pwm, useLeadingZeros>>
pinVars     == <<digitPins, segmentPins>>
refreshVars == <<enabled, brightness, pwmCounter, currentDigitToRefresh, control>>
textVars    == <<scrollPosition, textPattern>>
vars == <<phase, config, pwm, useLeadingZeros, digitPins, segmentPins, enabled,
          brightness, scrollPosition, textPattern, pwmCounter,
          currentDigitToRefresh, updatedDisplay, last, control>>

-----------------------------------------------------------------------------
(* Bounds of the model. *)

\* Largest number of digit pins a configuration is given.
MaxDigits == 4

-----------------------------------------------------------------------------
(* Fixed-width integer arithmetic. *)

MinInt32 == -2147483647 - 1

\* uint8(x) for x >= 0.
U8(x) == x % 256

\* -x on int32: the most negative value negates to itself.
Neg32(x) == IF x = MinInt32 THEN MinInt32 ELSE -x

\* a / b on int32 for b > 0 (Go truncates toward zero).
Quo32(a, b) == IF a >= 0 THEN a \div b ELSE -((-a) \div b)

\* A uint32 is kept as two 16-bit halves: its value is hi * 2^16 + lo.
U32(hi, lo) == [hi |-> hi, lo |-> lo]

\* int32(number) of a uint32: reinterpretation of the 32 bits.
ToInt32(u) ==
    IF u.hi >= 32768 THEN (u.hi - 65536) * 65536 + u.lo
    ELSE u.hi * 65536 + u.lo

\* number / 16 on a uint32.
U32Div16(u) == U32(u.hi \div 16, (u.hi % 16) * 4096 + (u.lo \div 16))

U32IsZero(u) == u.hi = 0 /\ u.lo = 0

\* Bit i of mask m, and the bitwise OR of two uint8 masks.
HasBit(m, i) == (m \div (2 ^ i)) % 2 = 1

BitOr(a, b) ==
    LET bit(i) == IF HasBit(a, i) \/ HasBit(b, i) THEN 2 ^ i ELSE 0
    IN  bit(0) + bit(1) + bit(2) + bit(3) + bit(4) + bit(5) + bit(6) + bit(7)

-----------------------------------------------------------------------------
(* float32 values.  A temperature or float argument is the dyadic rational *)
(* n / FDen; a float32 holds 24 significant bits, and a product is rounded *)
(* to nearest, ties to even.                                               *)

FDen == 2 ^ 3

F32Bits == 2 ^ 24

RECURSIVE RoundShift(_, _)
\* Least power of two p with a \div p < 2^24.
RoundShift(a, p) == IF a \div p < F32Bits THEN p ELSE RoundShift(a, 2 * p)

\* The numerator n (over FDen) rounded to a float32.
RoundF32(n) ==
    LET a    == IF n < 0 THEN -n ELSE n
        p    == RoundShift(a, 1)
        q    == a \div p
        r    == a % p
        up   == 2 * r > p \/ (2 * r = p /\ q % 2 = 1)
        m    == (IF up THEN q + 1 ELSE q) * p
    IN  IF n < 0 THEN -m ELSE m

\* number * float32(k) on float32, for the numerator n of number.
F32Mul(n, k) == RoundF32(n * k)

\* int32(x) of the float32 with numerator n: truncation toward zero.
F32ToInt32(n) == Quo32(n, FDen)

RECURSIVE ScaleLoop(_, _)
\* scale := 1; for range count { scale *= 10 }
ScaleLoop(scale, count) ==
    IF count = 0 THEN scale ELSE ScaleLoop(scale * 10, count - 1)

-----------------------------------------------------------------------------
(* The segment code table. *)

codes == <<
    63,  6,   91,  79,  102, 109, 125, 7,   127, 111,            \* '0'..'9'
    119, 124, 57,  94,  121, 113, 61,  118, 48,  14,             \* 'A'..'J'
    118, 56,  0,   84,  63,  115, 103, 80,  109, 120,            \* 'K'..'T'
    62,  62,  0,   118, 110, 91,                                 \* 'U'..'Z'
    0,   64,  128, 99,  8 >>          \* blank, minus, point, degree, underscore

getSegmentCode(index) == codes[index + 1]

BLANK   == getSegmentCode(36)
ZERO    == getSegmentCode(0)
MINUS   == getSegmentCode(37)
POINT   == getSegmentCode(38)
DEGREE  == getSegmentCode(39)

-----------------------------------------------------------------------------
(* Accessors of the instance. *)

DigitCount   == Len(digitPins)
SegmentCount == Len(segmentPins)

NoArgs == [op |-> "none", ret |-> "void", num |-> 0, hex |-> U32(0, 0),
           pos |-> <<>>, temp |-> 0, dp |-> 0, unit |-> 0, pat |-> <<>>,
           text |-> <<>>, run |-> 0, origin |-> <<>>,
           from |-> <<>>, pair |-> <<>>]

Call(op, ret) == [NoArgs EXCEPT !.op = op, !.ret = ret]

\* The outcome of a setter: its result and the buffer it leaves.
Out(ret, buf) == [ret |-> ret, buf |-> buf]

\* s.updatedDisplay[index] = mask; an index outside the slice panics.
InRange(buf, index) == index >= 0 /\ index < Len(buf)

-----------------------------------------------------------------------------
(* Numeric formatting. *)

RECURSIVE CountLoop(_, _, _)
\* for ; number > 0; number /= int32(base) { count++ }
CountLoop(number, base, count) ==
    IF number > 0 THEN CountLoop(Quo32(number, base), base, U8(count + 1))
    ELSE count

checkAvailableDigits(number, base) ==
    IF number = 0 THEN 1 <= U8(DigitCount)
    ELSE LET count == IF number < 0 THEN 2 ELSE 1
             n     == IF number < 0 THEN Neg32(number) ELSE number
         IN  U8(CountLoop(n, base, count) + 255) <= U8(DigitCount)

setNumberInitPattern(buf) ==
    [i \in 1..Len(buf) |-> IF useLeadingZeros THEN ZERO ELSE BLANK]

RECURSIVE SetNumberLoop(_, _, _)
\* for number > 0 && position < len(s.digitPins) { ... position++ }
SetNumberLoop(buf, number, position) ==
    IF number > 0 /\ position < DigitCount
    THEN SetNumberLoop([buf EXCEPT ![position + 1] = getSegmentCode(U8(number % 10))],
                       Quo32(number, 10), position + 1)
    ELSE [buf |-> buf, position |-> position]

SetNumberInitFirst(buf, number) ==
    Out("false", setNumberInitPattern(buf))

\* The body of SetNumber past its capacity check.
SetNumberPlace(buf, number) ==
    LET init       == setNumberInitPattern(buf)
        isNegative == number < 0
        n          == IF isNegative THEN Neg32(number) ELSE number
        r          == IF n = 0
                      THEN [buf |-> [init EXCEPT ![1] = ZERO], position |-> 0]
                      ELSE SetNumberLoop(init, n, 0)
    IN  IF ~isNegative THEN Out("true", r.buf)
        ELSE IF InRange(r.buf, r.position)
        THEN Out("true", [r.buf EXCEPT ![r.position + 1] = MINUS])
        ELSE Out("panic", r.buf)

\* SetNumber refused: the buffer is returned as it was.
SetNumberRefuse(buf, number) == Out("false", buf)

SetNumberOn(buf, number) ==
    IF ~checkAvailableDigits(number, 10) THEN SetNumberRefuse(buf, number)
    ELSE SetNumberPlace(buf, number)

LacksDecimalPointPinBelowSeven == SegmentCount < 7

\* len(s.segmentPins) < 8 refuses every decimal-point call.
LacksDecimalPointPin == SegmentCount < 8

AssignDecimalPoint(buf, decimalPos) ==
    [buf EXCEPT ![decimalPos + 1] = POINT]

\* s.updatedDisplay[decimalPos] |= POINT
OrDecimalPoint(buf, decimalPos) ==
    [buf EXCEPT ![decimalPos + 1] = BitOr(buf[decimalPos + 1], POINT)]

RECURSIVE DecimalLoop(_, _, _)
\* The second loop of SetNumberWithMultipleDecimals, from positions[i] on.
DecimalLoop(buf, positions, i) ==
    IF i > Len(positions) THEN Out("true", buf)
    ELSE IF positions[i] > U8(DigitCount) THEN Out("false", buf)
    ELSE IF ~InRange(buf, positions[i]) THEN Out("panic", buf)
    ELSE DecimalLoop(OrDecimalPoint(buf, positions[i]), positions, i + 1)

SetNumberWithMultipleDecimalsOn(buf, number, positions) ==
    IF Len(positions) = 0 THEN Out("false", buf)
    ELSE IF \E i \in 1..Len(positions) : positions[i] > U8(DigitCount)
    THEN Out("false", buf)
    ELSE IF LacksDecimalPointPin THEN Out("false", buf)
    ELSE LET r == SetNumberOn(buf, number)
         IN  IF r.ret # "true" THEN r
             ELSE DecimalLoop(r.buf, positions, 1)

SetNumberWithDecimalOn(buf, number, decimalPointPosition) ==
    SetNumberWithMultipleDecimalsOn(buf, number, <<decimalPointPosition>>)

SetNumberFloatOn(buf, number, decimalPlaces) ==
    IF decimalPlaces <= 0 THEN Out("false", buf)
    ELSE LET scale  == ScaleLoop(1, decimalPlaces)
             scaled == F32ToInt32(F32Mul(number, scale))
         IN  SetNumberWithDecimalOn(buf, scaled, decimalPlaces)

RECURSIVE SetHexLoop(_, _, _)
\* for number > 0 && position < len(s.digitPins) { ... position++ }
SetHexLoop(buf, number, position) ==
    IF ~U32IsZero(number) /\ position < DigitCount
    THEN SetHexLoop([buf EXCEPT ![position + 1] = getSegmentCode(U8(number.lo) % 16)],
                    U32Div16(number), position + 1)
    ELSE buf

SetHexOn(buf, number) ==
    IF ~checkAvailableDigits(ToInt32(number), 16) THEN Out("false", buf)
    ELSE LET init == setNumberInitPattern(buf)
         IN  IF U32IsZero(number) THEN Out("true", [init EXCEPT ![1] = ZERO])
             ELSE Out("true", SetHexLoop(init, number, 0))

\* The digit floors of the temperature calls.
TemperatureTooNarrow == DigitCount <= 1
TemperatureWithUnitTooNarrow == DigitCount <= 2

SetTemperatureOn(buf, temperature, decimalPlaces) ==
    IF TemperatureTooNarrow THEN Out("false", buf)
    ELSE LET scale  == ScaleLoop(1, U8(decimalPlaces + 1))
             scaled == F32ToInt32(F32Mul(temperature, scale))
             r      == IF decimalPlaces > 0
                       THEN SetNumberWithDecimalOn(buf, scaled, U8(decimalPlaces + 1))
                       ELSE SetNumberOn(buf, scaled)
         IN  IF ~checkAvailableDigits(scaled, 10) THEN Out("false", buf)
             ELSE IF r.ret # "true" THEN r
             ELSE Out("true", [r.buf EXCEPT ![1] = DEGREE])

Celsius    == 67   \* 'C'
Fahrenheit == 70   \* 'F'

SetTemperatureWithUnitOn(buf, temperature, decimalPlaces, unit) ==
    IF TemperatureWithUnitTooNarrow THEN Out("false", buf)
    ELSE LET adjustedDecimalPlaces ==
                 IF decimalPlaces > 0 THEN U8(decimalPlaces + 1) ELSE decimalPlaces
             r == SetTemperatureOn(buf, F32Mul(temperature, 10), adjustedDecimalPlaces)
         IN  IF r.ret # "true" THEN r
             ELSE Out("true", [r.buf EXCEPT
                     ![2] = DEGREE,
                     ![1] = IF unit = Fahrenheit THEN getSegmentCode(15)
                            ELSE getSegmentCode(12)])

\* A copy that blanks the indices past the pattern.
CopyBlanking(buf, pattern) ==
    [i \in 1..Len(buf) |-> IF i <= Len(pattern) THEN pattern[i] ELSE BLANK]

\* copy(s.updatedDisplay, pattern)
CopyInto(buf, pattern) ==
    [i \in 1..Len(buf) |-> IF i <= Len(pattern) THEN pattern[i] ELSE buf[i]]

SetSegmentOn(buf, pattern) ==
    IF Len(pattern) > DigitCount THEN Out("false", buf)
    ELSE Out("true", CopyInto(buf, pattern))

-----------------------------------------------------------------------------
(* Characters, the text pattern and the scroll window. *)

\* A lookup that knows the upper-case letters only.
charToSegmentPatternUpperOnly(char) ==
    IF char >= 48 /\ char <= 57 THEN [seg |-> getSegmentCode(char - 48), ok |-> TRUE]
    ELSE IF char >= 65 /\ char <= 90
    THEN [seg |-> getSegmentCode(char - 65 + 10), ok |-> TRUE]
    ELSE IF char = 32 THEN [seg |-> getSegmentCode(36), ok |-> TRUE]
    ELSE IF char = 45 THEN [seg |-> getSegmentCode(37), ok |-> TRUE]
    ELSE IF char = 46 THEN [seg |-> getSegmentCode(38), ok |-> TRUE]
    ELSE IF char = 42 THEN [seg |-> getSegmentCode(39), ok |-> TRUE]
    ELSE IF char = 95 THEN [seg |-> getSegmentCode(40), ok |-> TRUE]
    ELSE [seg |-> 0, ok |-> FALSE]

\* A character is its byte value.
charToSegmentPattern(char) ==
    LET c == IF char >= 97 /\ char <= 122 THEN char - 97 + 65 ELSE char
    IN  IF c >= 48 /\ c <= 57 THEN [seg |-> getSegmentCode(c - 48), ok |-> TRUE]
        ELSE IF c >= 65 /\ c <= 90 THEN [seg |-> getSegmentCode(c - 65 + 10), ok |-> TRUE]
        ELSE IF c = 32 THEN [seg |-> getSegmentCode(36), ok |-> TRUE]
        ELSE IF c = 45 THEN [seg |-> getSegmentCode(37), ok |-> TRUE]
        ELSE IF c = 46 THEN [seg |-> getSegmentCode(38), ok |-> TRUE]
        ELSE IF c = 42 THEN [seg |-> getSegmentCode(39), ok |-> TRUE]
        ELSE IF c = 95 THEN [seg |-> getSegmentCode(40), ok |-> TRUE]
        ELSE [seg |-> 0, ok |-> FALSE]

\* A clearing loop that stops before the highest index.
ClearBelowHighest(buf) ==
    [i \in 1..Len(buf) |-> IF i < Len(buf) THEN BLANK ELSE buf[i]]

\* Clear: every buffer index becomes blank.
ClearOn(buf) == [i \in 1..Len(buf) |-> BLANK]

\* A projection that lays the pattern out from index 0 upwards.
updateDisplayAscending(buf, pattern, scroll) ==
    [j \in 1..Len(buf) |->
        IF Len(pattern) > DigitCount
        THEN pattern[((scroll + j - 1) % Len(pattern)) + 1]
        ELSE IF j <= Len(pattern) THEN pattern[j]
        ELSE BLANK]

updateDisplayFromPatterns(buf, pattern, scroll) ==
    LET displayWidth  == DigitCount
        patternLength == Len(pattern)
        \* the loop index i that writes buffer position k (k = displayWidth-1-i)
        I(k) == displayWidth - 1 - k
    IN  [j \in 1..Len(buf) |->
            LET k == j - 1 IN
            IF k > displayWidth - 1 THEN buf[j]
            ELSE IF patternLength > displayWidth
            THEN pattern[((scroll + I(k)) % patternLength) + 1]
            ELSE IF I(k) < patternLength THEN pattern[I(k) + 1]
            ELSE BLANK]

\* Index (from 1) of the first unsupported character of text, 0 when none.
FirstUnsupported(text) ==
    LET bad == {i \in 1..Len(text) : ~charToSegmentPattern(text[i]).ok}
    IN  IF bad = {} THEN 0 ELSE CHOOSE i \in bad : \A j \in bad : i <= j

\* A reservation without the gap of blanks after a long text.
reservedTextLengthWithoutGap(textLength, displayWidth) == textLength

\* reservedLength: a text longer than the display gets displayWidth more slots.
reservedTextLength(textLength, displayWidth) ==
    IF textLength > displayWidth THEN textLength + displayWidth ELSE textLength

\* The state SetText leaves: result, buffer, text pattern, scroll position.
SetTextOn(buf, text) ==
    LET cleared        == ClearOn(buf)
        textLength     == Len(text)
        displayWidth   == DigitCount
        reservedLength == reservedTextLength(textLength, displayWidth)
        stop           == FirstUnsupported(text)
        \* make([]uint8, reserved) filled up to the character that stops the loop
        filled(n)      == [i \in 1..reservedLength |->
                             IF i <= n THEN charToSegmentPattern(text[i]).seg
                             ELSE IF i > textLength THEN BLANK ELSE 0]
    IN  IF stop # 0
        THEN [ret |-> "false", buf |-> cleared,
              pattern |-> [i \in 1..reservedLength |->
                              IF i < stop THEN charToSegmentPattern(text[i]).seg ELSE 0],
              scroll |-> 0]
        ELSE [ret |-> "true",
              buf |-> updateDisplayFromPatterns(cleared, filled(textLength), 0),
              pattern |-> filled(textLength), scroll |-> 0]

-----------------------------------------------------------------------------
(* Pins. *)

\* pin.Configure(machine.PinConfig{Mode: machine.PinOutput}) on every pin.
ConfigureAll(pins) == [i \in 1..Len(pins) |-> "output"]

DigitOff(hardware)   == IF hardware = "CommonCathode" THEN "high" ELSE "low"
SegmentOff(hardware) == IF hardware = "CommonCathode" THEN "low" ELSE "high"

\* Digit pins left as they are.
keepDigitPins(pins, hardware) == pins

clearDigitPins(pins, hardware)   == [i \in 1..Len(pins) |-> DigitOff(hardware)]
clearSegmentPins(pins, hardware) == [i \in 1..Len(pins) |-> SegmentOff(hardware)]

Unconfigured(n) == [i \in 1..n |-> "unconfigured"]

\* A selected digit driven high on common cathode and low on common anode.
DigitOnInverted(hardware) == IF hardware = "CommonCathode" THEN "high" ELSE "low"

\* The level Refresh drives the selected digit pin to.
DigitOn(hardware)   == IF hardware = "CommonCathode" THEN "low" ELSE "high"
SegmentOn(hardware) == IF hardware = "CommonCathode" THEN "high" ELSE "low"

\* Segment pins that read the mask one bit too high.
setSegmentPinsShifted(pins, pattern, hardware) ==
    [i \in 1..Len(pins) |->
        IF HasBit(pattern, i) THEN SegmentOn(hardware) ELSE SegmentOff(hardware)]

\* s.updatedDisplay[s.currentDigitToRefresh] laid on the segment pins, bit i
\* on pin i.
setSegmentPins(pins, pattern, hardware) ==
    [i \in 1..Len(pins) |->
        IF HasBit(pattern, i - 1) THEN SegmentOn(hardware) ELSE SegmentOff(hardware)]

\* A digit line is energized when a digit pin is at its active level.
Energized(pins, hardware) == \E i \in 1..Len(pins) : pins[i] = DigitOn(hardware)

-----------------------------------------------------------------------------
(* Brightness. *)

pwmPeriod == 10

\* A duty cycle that stays on for one tick more than the brightness level.
softwarePWMInclusive(counter, level) ==
    LET c               == U8(counter + 1) % pwmPeriod
        brightnessLevel == U8(level + 9) \div 10
    IN  [pwmCounter |-> c,
         enabled    |-> brightnessLevel > 0
                           /\ (brightnessLevel >= 10 \/ c <= brightnessLevel)]

\* A duty cycle that is on for one tick less than the brightness level.
softwarePWMExclusive(counter, level) ==
    LET c               == U8(counter + 1) % pwmPeriod
        brightnessLevel == U8(level + 9) \div 10
    IN  [pwmCounter |-> c,
         enabled    |-> brightnessLevel > 0
                           /\ (brightnessLevel >= 10 \/ c + 1 < brightnessLevel)]

\* softwarePWM: the counter and the enabled flag it leaves.
softwarePWM(counter, level) ==
    LET c               == U8(counter + 1) % pwmPeriod
        brightnessLevel == U8(level + 9) \div 10
    IN  [pwmCounter |-> c,
         enabled    |-> brightnessLevel > 0
                           /\ (brightnessLevel >= 10 \/ c < brightnessLevel)]

\* An On() that leaves a zero brightness at zero.
brightnessKept(level) == level

\* On(): if s.brightness == 0 { s.brightness = 100 }
brightnessOn(level) == IF level = 0 THEN 100 ELSE level

NoControl == [op |-> "none", arg |-> 0, ticks |-> <<>>, lit |-> <<>>]

Control(op, arg) == [NoControl EXCEPT !.op = op, !.arg = arg]

\* The outcomes of the latest pwmPeriod Refresh calls.
Latest(ticks) == IF Len(ticks) > pwmPeriod THEN Tail(ticks) ELSE ticks

-----------------------------------------------------------------------------
(* Construction. *)

Init ==
    /\ phase = "new"
    /\ config = "CommonAnode"
    /\ pwm = "SoftwarePWM"
    /\ useLeadingZeros = FALSE
    /\ digitPins = <<>>
    /\ segmentPins = <<>>
    /\ enabled = FALSE
    /\ brightness = 0
    /\ scrollPosition = 0
    /\ textPattern = <<>>
    /\ pwmCounter = 0
    /\ currentDigitToRefresh = 0
    /\ updatedDisplay = <<>>
    /\ last = NoArgs
    /\ control = NoControl

InvalidConfigLowerOnly(nDigitPins, nSegmentPins) ==
    nDigitPins = 0 \/ nSegmentPins < 7

\* The configurations NewSevSeg rejects.
InvalidConfig(nDigitPins, nSegmentPins) ==
    nDigitPins = 0 \/ nSegmentPins < 7 \/ nSegmentPins > 8

\* NewSevSeg(cfg): cfg has nDigitPins digit pins and nSegmentPins segment pins.
NewSevSeg(hardware, pwmType, nDigitPins, nSegmentPins, leadingZeros) ==
    /\ phase = "new"
    /\ IF InvalidConfig(nDigitPins, nSegmentPins)
       THEN /\ phase' = "nil"
            /\ digitPins' = Unconfigured(nDigitPins)
            /\ segmentPins' = Unconfigured(nSegmentPins)
            /\ last' = Call("NewSevSeg", "false")
            /\ UNCHANGED <<cfgVars, refreshVars, textVars, updatedDisplay>>
       ELSE /\ phase' = "ready"
            /\ config' = hardware
            /\ pwm' = pwmType
            /\ useLeadingZeros' = leadingZeros
            /\ digitPins' =
                   clearDigitPins(ConfigureAll(Unconfigured(nDigitPins)), hardware)
            /\ segmentPins' =
                   clearSegmentPins(ConfigureAll(Unconfigured(nSegmentPins)), hardware)
            /\ brightness' = 100
            /\ enabled' = TRUE
            /\ updatedDisplay' = [i \in 1..nDigitPins |-> 0]
            /\ currentDigitToRefresh' = 0
            /\ last' = Call("NewSevSeg", "true")
            /\ UNCHANGED <<textVars, pwmCounter, control>>

-----------------------------------------------------------------------------
(* The setters as operations on the instance.  A panic (an index outside   *)
(* the buffer) ends the program: no operation follows it.                  *)

\* The instance after a setter with outcome out, recorded as call.
Apply(call, out) ==
    /\ phase = "ready"
    /\ updatedDisplay' = out.buf
    /\ last' = [call EXCEPT !.ret = out.ret]
    /\ phase' = IF out.ret = "panic" THEN "panicked" ELSE "ready"
    /\ UNCHANGED <<cfgVars, pinVars, refreshVars, textVars>>

Clear ==
    Apply(Call("Clear", "void"), Out("void", ClearOn(updatedDisplay)))

SetNumber(number) ==
    Apply([Call("SetNumber", "void") EXCEPT !.num = number],
          SetNumberOn(updatedDisplay, number))

SetNumberFloat(number, decimalPlaces) ==
    Apply([Call("SetNumberFloat", "void") EXCEPT !.temp = number, !.dp = decimalPlaces],
          SetNumberFloatOn(updatedDisplay, number, decimalPlaces))

SetNumberWithDecimal(number, decimalPointPosition) ==
    Apply([Call("SetNumberWithDecimal", "void") EXCEPT
              !.num = number, !.pos = <<decimalPointPosition>>],
          SetNumberWithDecimalOn(updatedDisplay, number, decimalPointPosition))

SetNumberWithMultipleDecimals(number, decimalPointsPositions) ==
    Apply([Call("SetNumberWithMultipleDecimals", "void") EXCEPT
              !.num = number, !.pos = decimalPointsPositions],
          SetNumberWithMultipleDecimalsOn(updatedDisplay, number, decimalPointsPositions))

SetHex(number) ==
    Apply([Call("SetHex", "void") EXCEPT !.hex = number],
          SetHexOn(updatedDisplay, number))

SetTemperature(temperature, decimalPlaces) ==
    Apply([Call("SetTemperature", "void") EXCEPT
              !.temp = temperature, !.dp = decimalPlaces],
          SetTemperatureOn(updatedDisplay, temperature, decimalPlaces))

SetTemperatureWithUnit(temperature, decimalPlaces, unit) ==
    Apply([Call("SetTemperatureWithUnit", "void") EXCEPT
              !.temp = temperature, !.dp = decimalPlaces, !.unit = unit],
          SetTemperatureWithUnitOn(updatedDisplay, temperature, decimalPlaces, unit))

SetSegment(pattern) ==
    Apply([Call("SetSegment", "void") EXCEPT !.pat = pattern],
          SetSegmentOn(updatedDisplay, pattern))

SetText(text) ==
    LET r == SetTextOn(updatedDisplay, text)
    IN  /\ phase = "ready"
        /\ updatedDisplay' = r.buf
        /\ textPattern' = r.pattern
        /\ scrollPosition' = r.scroll
        /\ last' = [Call("SetText", r.ret) EXCEPT !.text = text]
        /\ UNCHANGED <<phase, cfgVars, pinVars, refreshVars>>

\* A guard that lets a pattern exactly as long as the display scroll.
patternShorterThanDisplay(patternLength, displayWidth) ==
    patternLength < displayWidth

\* if patternLength <= len(s.digitPins) { return }
patternFitsDisplay(patternLength, displayWidth) ==
    patternLength <= displayWidth

\* A step to the left that never wraps around.
scrollLeftWithoutWrap(position, patternLength) == position + 1

\* s.scrollPosition = (s.scrollPosition + 1) % patternLength
scrollLeft(position, patternLength) == (position + 1) % patternLength

\* What a scroll call remembers: last.from is the scroll position and the
\* buffer the call found, when it moved the window; last.pair is the
\* last.from of the call before it, when that call was the scroll named by
\* `opposite' and moved the window too.  Both are <<>> otherwise.
ScrollCall(op, opposite, moves) ==
    [Call(op, "void") EXCEPT
        !.from = IF moves THEN <<scrollPosition, updatedDisplay>> ELSE <<>>,
        !.pair = IF moves /\ last.op = opposite THEN last.from ELSE <<>>]

\* last.run counts the ScrollTextLeft calls made in a row since a successful
\* SetText, up to the pattern length; last.origin is the buffer that SetText
\* left.  Both are 0 and <<>> outside such a run.
ScrollTextLeft ==
    LET moves  == ~patternFitsDisplay(Len(textPattern), DigitCount)
        starts == last.op = "SetText" /\ last.ret = "true"
        inRun  == /\ moves
                  /\ \/ starts
                     \/ /\ last.op = "ScrollTextLeft"
                        /\ last.run \in 1..(Len(textPattern) - 1)
    IN  /\ phase = "ready"
        /\ last' = [ScrollCall("ScrollTextLeft", "ScrollTextRight", moves) EXCEPT
                       !.run    = IF inRun THEN last.run + 1 ELSE 0,
                       !.origin = IF ~inRun THEN <<>>
                                  ELSE IF starts THEN updatedDisplay
                                  ELSE last.origin]
        /\ IF ~moves
           THEN UNCHANGED <<scrollPosition, updatedDisplay>>
           ELSE /\ scrollPosition' = scrollLeft(scrollPosition, Len(textPattern))
                /\ updatedDisplay' =
                       updateDisplayFromPatterns(updatedDisplay, textPattern,
                                                 scrollPosition')
        /\ UNCHANGED <<phase, cfgVars, pinVars, refreshVars, textPattern>>

\* last.text is the character asked about, last.pat the mask the lookup
\* returned and IsCharacterSupported dropped.
IsCharacterSupported(char) ==
    LET r == charToSegmentPattern(char)
    IN  /\ phase = "ready"
        /\ last' = [Call("IsCharacterSupported", IF r.ok THEN "true" ELSE "false")
                       EXCEPT !.text = <<char>>, !.pat = <<r.seg>>]
        /\ UNCHANGED <<phase, cfgVars, pinVars, refreshVars, textVars,
                       updatedDisplay>>

\* A step to the right that never wraps around.
scrollRightWithoutWrap(position, patternLength) == position - 1

\* s.scrollPosition = (s.scrollPosition - 1 + patternLength) % patternLength
scrollRight(position, patternLength) ==
    (position - 1 + patternLength) % patternLength

ScrollTextRight ==
    /\ phase = "ready"
    /\ last' = ScrollCall("ScrollTextRight", "ScrollTextLeft",
                          ~patternFitsDisplay(Len(textPattern), DigitCount))
    /\ IF patternFitsDisplay(Len(textPattern), DigitCount)
       THEN UNCHANGED <<scrollPosition, updatedDisplay>>
       ELSE /\ scrollPosition' = scrollRight(scrollPosition, Len(textPattern))
            /\ updatedDisplay' =
                   updateDisplayFromPatterns(updatedDisplay, textPattern, scrollPosition')
    /\ UNCHANGED <<phase, cfgVars, pinVars, refreshVars, textPattern>>

-----------------------------------------------------------------------------
(* Brightness control and the refresh tick. *)

\* A Toggle that blanks the buffer when it disables the display.
ToggleBlanking(enable) ==
    /\ phase = "ready"
    /\ enabled' = enable
    /\ updatedDisplay' = IF enable THEN updatedDisplay ELSE ClearOn(updatedDisplay)
    /\ control' = Control("Toggle", IF enable THEN 1 ELSE 0)
    /\ last' = Call("Toggle", "void")
    /\ UNCHANGED <<phase, cfgVars, pinVars, textVars,
                   brightness, pwmCounter, currentDigitToRefresh>>

Toggle(enable) ==
    /\ phase = "ready"
    /\ enabled' = enable
    /\ control' = Control("Toggle", IF enable THEN 1 ELSE 0)
    /\ last' = Call("Toggle", "void")
    /\ UNCHANGED <<phase, cfgVars, pinVars, textVars, updatedDisplay,
                   brightness, pwmCounter, currentDigitToRefresh>>

Off ==
    /\ phase = "ready"
    /\ enabled' = FALSE
    /\ digitPins' = clearDigitPins(digitPins, config)
    /\ segmentPins' = clearSegmentPins(segmentPins, config)
    /\ control' = Control("Off", 0)
    /\ last' = Call("Off", "void")
    /\ UNCHANGED <<phase, cfgVars, textVars, updatedDisplay,
                   brightness, pwmCounter, currentDigitToRefresh>>

On ==
    /\ phase = "ready"
    /\ enabled' = TRUE
    /\ brightness' = brightnessOn(brightness)
    /\ control' = Control("On", brightness)
    /\ last' = Call("On", "void")
    /\ UNCHANGED <<phase, cfgVars, pinVars, textVars, updatedDisplay,
                   pwmCounter, currentDigitToRefresh>>

\* The clamping branch assigns the parameter, not the field.
SetBrightness(level) ==
    /\ phase = "ready"
    /\ enabled' = (level # 0)
    /\ brightness' = IF level > 100 THEN brightness ELSE level
    /\ control' = Control("SetBrightness", level)
    /\ last' = Call("SetBrightness", "void")
    /\ UNCHANGED <<phase, cfgVars, pinVars, textVars, updatedDisplay,
                   pwmCounter, currentDigitToRefresh>>

\* A cursor that steps over every other digit.
nextDigitSkipping(cursor, digits) == U8(cursor + 2) % U8(digits)

\* s.currentDigitToRefresh = (s.currentDigitToRefresh + 1) % uint8(len(s.digitPins))
nextDigit(cursor, digits) == U8(cursor + 1) % U8(digits)

\* A cursor that advances on a dark tick as well.
cursorAdvancingInTheDark(cursor, digits) == U8(cursor + 1) % U8(digits)

\* if !s.enabled { return false }: the cursor is where it was.
cursorAfterDarkTick(cursor, digits) == cursor

\* Segment lines driven to their off level on a dark tick.
segmentsClearedInTheDark(pins, hardware) ==
    [i \in 1..Len(pins) |-> SegmentOff(hardware)]

\* if !s.enabled { return false }: the segment pins are where they were.
segmentsAfterDarkTick(pins, hardware) == pins

\* A Refresh that reports success on every tick.
refreshAlwaysTrue(isEnabled) == "true"

\* The result of Refresh on a display with digits.
refreshResult(isEnabled) == IF isEnabled THEN "true" ELSE "false"

\* The fields Refresh reads and writes, its result, and the record of its
\* outcomes: ticks as in control, lit the index of the digit pin at its active
\* level after each call (-1 when none is).
RefreshState ==
    [digitPins |-> digitPins, segmentPins |-> segmentPins, enabled |-> enabled,
     pwmCounter |-> pwmCounter, cursor |-> currentDigitToRefresh,
     ticks |-> control.ticks, lit |-> control.lit, ret |-> "void"]

\* The digit pin at its active level, -1 when there is none.
LitDigit(pins, hardware) ==
    IF Energized(pins, hardware)
    THEN (CHOOSE i \in 1..Len(pins) : pins[i] = DigitOn(hardware)) - 1
    ELSE -1

\* One call of Refresh on the fields st with buffer buf.
RefreshOn(st, buf) ==
    LET p       == IF pwm = "SoftwarePWM" THEN softwarePWM(st.pwmCounter, brightness)
                   ELSE [pwmCounter |-> st.pwmCounter, enabled |-> st.enabled]
        cleared == clearDigitPins(st.digitPins, config)
        cur     == st.cursor
        digits  == Len(st.digitPins)
        driven  == IF ~p.enabled THEN cleared
                   ELSE IF cur < U8(digits)
                   THEN [cleared EXCEPT ![cur + 1] = DigitOn(config)]
                   ELSE cleared
        after   == IF Len(buf) = 0 THEN st.digitPins ELSE driven
        log     == [st EXCEPT
                       !.ticks = Latest(Append(@, Energized(after, config))),
                       !.lit   = Latest(Append(@, LitDigit(after, config)))]
    IN  IF Len(buf) = 0 THEN [log EXCEPT !.ret = "false"]
        ELSE [log EXCEPT
                 !.pwmCounter  = p.pwmCounter,
                 !.enabled     = p.enabled,
                 !.digitPins   = driven,
                 !.segmentPins =
                     IF p.enabled
                     THEN setSegmentPins(st.segmentPins, buf[cur + 1], config)
                     ELSE segmentsAfterDarkTick(st.segmentPins, config),
                 !.cursor      = IF p.enabled THEN nextDigit(cur, digits)
                                 ELSE cursorAfterDarkTick(cur, digits),
                 !.ret         = refreshResult(p.enabled)]

\* The instance takes the fields of st.
Refreshed(st) ==
    /\ digitPins' = st.digitPins
    /\ segmentPins' = st.segmentPins
    /\ enabled' = st.enabled
    /\ pwmCounter' = st.pwmCounter
    /\ currentDigitToRefresh' = st.cursor
    /\ control' = [control EXCEPT !.ticks = st.ticks, !.lit = st.lit]

Refresh ==
    LET st == RefreshOn(RefreshState, updatedDisplay)
    IN  /\ phase = "ready"
        /\ Refreshed(st)
        /\ last' = Call("Refresh", st.ret)
        /\ UNCHANGED <<phase, cfgVars, textVars, updatedDisplay, brightness>>

\* Segment A, B, C, D, E, F, G, DP
segmentPatterns == [j \in 1..8 |-> 2 ^ (j - 1)]

RECURSIVE RefreshTimes(_, _, _)
\* for range delayMS { s.Refresh(); time.Sleep(time.Millisecond) }
RefreshTimes(st, buf, times) ==
    IF times = 0 THEN st ELSE RefreshTimes(RefreshOn(st, buf), buf, times - 1)

RECURSIVE DisplayTestLoop(_, _, _, _, _)
\* The loops of DisplayTest from digit i and segment j on.
DisplayTestLoop(st, buf, i, j, delayMS) ==
    IF i >= Len(st.digitPins) THEN [st |-> st, buf |-> buf]
    ELSE IF j >= Len(st.segmentPins) THEN DisplayTestLoop(st, buf, i + 1, 0, delayMS)
    ELSE LET shown == [buf EXCEPT ![i + 1] = segmentPatterns[j + 1]]
             after == RefreshTimes(st, shown, delayMS)
         IN  DisplayTestLoop(after, [shown EXCEPT ![i + 1] = BLANK], i, j + 1,
                             delayMS)

DisplayTest(delayMS) ==
    LET r == DisplayTestLoop(RefreshState, updatedDisplay, 0, 0, delayMS)
    IN  /\ phase = "ready"
        /\ Refreshed(r.st)
        /\ updatedDisplay' = r.buf
        /\ last' = Call("DisplayTest", "void")
        /\ UNCHANGED <<phase, cfgVars, textVars, brightness>>

-----------------------------------------------------------------------------
(* Arguments the operations are called with. *)

Hardware == {"CommonAnode", "CommonCathode"}

DigitPinCounts   == 0..MaxDigits
SegmentPinCounts == 6..9

NumberInputs == {0, 7, -9, 123, 12345, 2147483647, MinInt32}

DecimalNumberInputs == {-12, 1234}

\* 0, 0xFF, 0x12345, 0x80000000, 0xFFFFFFFF
HexInputs == {U32(0, 0), U32(0, 255), U32(1, 9029), U32(32768, 0),
              U32(65535, 65535)}

DecimalPositions == (0..MaxDigits) \cup {255}

PositionLists == {<<>>} \cup {<<1, q>> : q \in DecimalPositions}

\* 0, 0.5, -1.5, 23.25 as numerators over FDen
FloatInputs == {0, 4, -12, 186}

FloatPlaces == {0, 1}

TemperaturePlaces == {0, 1, 255}

Units == {Celsius, Fahrenheit}

SegmentPatterns == {[i \in 1..n |-> 255] : n \in 0..(MaxDigits + 1)}

-----------------------------------------------------------------------------
(* The numeric formatters on every configuration. *)

\* Formatting reads the leading-zeros flag and never the polarity: each
\* polarity is configured with one value of the flag.
FormatConfigs == {<<"CommonCathode", FALSE>>, <<"CommonAnode", TRUE>>}

Construct ==
    \E c \in FormatConfigs, nd \in DigitPinCounts, ns \in SegmentPinCounts :
        NewSevSeg(c[1], "SoftwarePWM", nd, ns, c[2])

NextFormat ==
    \/ Construct
    \/ Clear
    \/ \E number \in NumberInputs : SetNumber(number)
    \/ \E number \in FloatInputs, dp \in FloatPlaces : SetNumberFloat(number, dp)
    \/ \E number \in DecimalNumberInputs, p \in DecimalPositions :
          SetNumberWithDecimal(number, p)
    \/ \E number \in DecimalNumberInputs, P \in PositionLists :
          SetNumberWithMultipleDecimals(number, P)
    \/ \E number \in HexInputs : SetHex(number)
    \/ \E t \in FloatInputs, dp \in TemperaturePlaces : SetTemperature(t, dp)
    \/ \E t \in FloatInputs, dp \in FloatPlaces, unit \in Units :
          SetTemperatureWithUnit(t, dp, unit)
    \/ \E pattern \in SegmentPatterns : SetSegment(pattern)

SpecFormat == Init /\ [][NextFormat]_vars

-----------------------------------------------------------------------------
(* The text operations, with setters that replace the buffer in between. *)

\* "", "Hi", "Hello", "?", "H?", "Hi?lo" as bytes
Texts == {<<>>, <<72, 105>>, <<72, 101, 108, 108, 111>>, <<63>>, <<72, 63>>,
          <<72, 105, 63, 108, 111>>}

TextNumberInputs == {-9, 123}

ConstructText ==
    \E c \in FormatConfigs, nd \in DigitPinCounts, ns \in {7, 8} :
        NewSevSeg(c[1], "SoftwarePWM", nd, ns, c[2])

NextText ==
    \/ ConstructText
    \/ Clear
    \/ \E text \in Texts : SetText(text)
    \/ ScrollTextLeft
    \/ ScrollTextRight
    \/ \E number \in TextNumberInputs : SetNumber(number)
    \/ \E pattern \in SegmentPatterns : SetSegment(pattern)

SpecText == Init /\ [][NextText]_vars

-----------------------------------------------------------------------------
(* Brightness control between refresh ticks. *)

BrightnessInputs == {0, 1, 50, 95, 100, 200}

\* Polarity, PWM type and segment-pin count of the refreshed displays.
RefreshConfigs == {<<"CommonCathode", "SoftwarePWM", 8>>,
                   <<"CommonAnode", "SoftwarePWM", 7>>,
                   <<"CommonCathode", "HardwarePWM", 7>>}

ConstructRefresh ==
    \E c \in RefreshConfigs, nd \in 1..MaxDigits :
        NewSevSeg(c[1], c[2], nd, c[3], FALSE)

NextRefresh ==
    \/ ConstructRefresh
    \/ Refresh
    \/ \E level \in BrightnessInputs : SetBrightness(level)
    \/ On
    \/ Off
    \/ \E enable \in BOOLEAN : Toggle(enable)

SpecRefresh == Init /\ [][NextRefresh]_vars

-----------------------------------------------------------------------------
(* The pin levels Refresh leaves, over displays that show something. *)

PinConfigs == {<<"CommonCathode", "SoftwarePWM", 8>>,
               <<"CommonAnode", "SoftwarePWM", 7>>}

PinBrightnessInputs == {0, 100}

PinNumberInputs == {123}

\* 'A' with the decimal point
PinSegmentPatterns == {<<247>>}

ConstructPins ==
    \E c \in PinConfigs, nd \in 1..MaxDigits :
        NewSevSeg(c[1], c[2], nd, c[3], FALSE)

NextPins ==
    \/ ConstructPins
    \/ Refresh
    \/ \E level \in PinBrightnessInputs : SetBrightness(level)
    \/ Off
    \/ \E number \in PinNumberInputs : SetNumber(number)
    \/ \E pattern \in PinSegmentPatterns : SetSegment(pattern)

SpecPins == Init /\ [][NextPins]_vars

-----------------------------------------------------------------------------
(* Every kind of public operation between refresh ticks, on small displays. *)

\* The PWM type is HardwarePWM, under which Refresh takes the enabled flag as
\* the brightness calls left it; software PWM is refreshed in SpecRefresh and
\* SpecPins.

\* Largest number of digit pins of the displays every operation is tried on.
MaxSmallDigits == 2

SmallConfigs == {<<"CommonCathode", "HardwarePWM", 7>>,
                 <<"CommonAnode", "HardwarePWM", 8>>}

\* "Hi"
SmallTexts == {<<72, 105>>}

DelayInputs == {1}

ConstructSmall ==
    \E c \in SmallConfigs, nd \in 1..MaxSmallDigits :
        NewSevSeg(c[1], c[2], nd, c[3], FALSE)

NextAll ==
    \/ ConstructSmall
    \/ Refresh
    \/ \E level \in PinBrightnessInputs : SetBrightness(level)
    \/ On
    \/ Off
    \/ \E enable \in BOOLEAN : Toggle(enable)
    \/ \E delayMS \in DelayInputs : DisplayTest(delayMS)
    \/ \E pattern \in PinSegmentPatterns : SetSegment(pattern)
    \/ \E text \in SmallTexts : SetText(text)
    \/ ScrollTextLeft
    \/ ScrollTextRight

SpecAll == Init /\ [][NextAll]_vars

-----------------------------------------------------------------------------
(* Every kind of public operation on a dimmable display: the buffer, the    *)
(* text window, the brightness and the refresh tick together.               *)

WellConfigs == {<<"CommonCathode", "SoftwarePWM", 8>>}

WellBrightnessInputs == {95, 200}

WellNumberInputs == {7}

ConstructWell ==
    \E c \in WellConfigs, nd \in 1..MaxSmallDigits :
        NewSevSeg(c[1], c[2], nd, c[3], FALSE)

NextWell ==
    \/ ConstructWell
    \/ Refresh
    \/ \E level \in WellBrightnessInputs : SetBrightness(level)
    \/ Off
    \/ Clear
    \/ \E number \in WellNumberInputs : SetNumber(number)
    \/ \E pattern \in PinSegmentPatterns : SetSegment(pattern)
    \/ \E text \in SmallTexts : SetText(text)
    \/ ScrollTextLeft
    \/ ScrollTextRight

SpecWell == Init /\ [][NextWell]_vars

-----------------------------------------------------------------------------
(* The character lookup on every byte. *)

Bytes == 0..255

\* "a", "A", "*", "?"
CharTexts == {<<97>>, <<65>>, <<42>>, <<63>>}

ConstructChars ==
    \E nd \in 1..MaxSmallDigits :
        NewSevSeg("CommonCathode", "SoftwarePWM", nd, 8, FALSE)

NextChars ==
    \/ ConstructChars
    \/ \E char \in Bytes : IsCharacterSupported(char)
    \/ \E text \in CharTexts : SetText(text)

SpecChars == Init /\ [][NextChars]_vars

-----------------------------------------------------------------------------
(* A display that is set to a brightness of at least 1 and then refreshed   *)
(* forever: the main loop calls Refresh on every pass.                      *)

LiveBrightnessInputs == {1, 10, 50, 100}

LiveConfigs == {<<"CommonCathode", "SoftwarePWM">>,
                <<"CommonAnode", "HardwarePWM">>}

ConstructLive ==
    \E c \in LiveConfigs, nd \in 1..MaxDigits :
        NewSevSeg(c[1], c[2], nd, 8, FALSE)

\* The brightness is chosen before the first Refresh.
SetBrightnessBeforeRefresh ==
    /\ control.ticks = <<>>
    /\ last.op # "Refresh"
    /\ \E level \in LiveBrightnessInputs : SetBrightness(level)

NextLive ==
    \/ ConstructLive
    \/ SetBrightnessBeforeRefresh
    \/ Refresh

SpecLive == Init /\ [][NextLive]_vars /\ WF_vars(Refresh)

-----------------------------------------------------------------------------
(* What the claims speak of. *)

\* The decimal digits of |v| for an int32 v, least significant first; |v| of
\* the most negative int32 is 2147483648.
AbsDigits(v) ==
    LET RECURSIVE Digits(_)
        Digits(a) == IF a < 10 THEN <<a>> ELSE <<a % 10>> \o Digits(a \div 10)
    IN  IF v = MinInt32 THEN <<8, 4, 6, 3, 8, 4, 7, 4, 1, 2>>
        ELSE Digits(IF v < 0 THEN -v ELSE v)

\* Slots SetNumber(v) needs: the digits of |v| and one for the minus sign.
DecimalWidth(v) == Len(AbsDigits(v)) + (IF v < 0 THEN 1 ELSE 0)

\* The glyph a correct rendering of v has at buffer index k.
NumberGlyph(v, k) ==
    IF k < Len(AbsDigits(v)) THEN getSegmentCode(AbsDigits(v)[k + 1])
    ELSE IF v < 0 /\ k = Len(AbsDigits(v)) THEN MINUS
    ELSE IF useLeadingZeros THEN ZERO ELSE BLANK

\* The k-th hexadecimal digit of a uint32, and the number of its digits.
HexDigit(u, k) ==
    IF k < 4 THEN (u.lo \div (16 ^ k)) % 16 ELSE (u.hi \div (16 ^ (k - 4))) % 16

HexWidth(u) ==
    LET used == {k \in 0..7 : HexDigit(u, k) # 0}
    IN  IF used = {} THEN 1 ELSE 1 + CHOOSE k \in used : \A j \in used : j <= k

NumericSetters ==
    {"SetNumber", "SetHex", "SetNumberFloat", "SetNumberWithDecimal",
     "SetNumberWithMultipleDecimals", "SetTemperature", "SetTemperatureWithUnit",
     "SetSegment"}

DecimalPointSetters ==
    {"SetNumberWithDecimal", "SetNumberWithMultipleDecimals", "SetNumberFloat"}

\* A mask without its decimal-point bit.
Glyph(mask) == mask % 128

-----------------------------------------------------------------------------
(* C1: NewSevSeg returns (nil, false) exactly when the configuration has   *)
(* zero digit pins or a segment-pin count other than 7 or 8, and then no   *)
(* pin is configured or driven; every other configuration yields a usable  *)
(* instance with success = true: a buffer of one mask per digit, full      *)
(* brightness, enabled, every pin configured and driven to its off level.  *)
C1_Construction ==
    phase # "new" =>
        /\ phase = "nil" <=> (DigitCount = 0 \/ SegmentCount \notin {7, 8})
        /\ last.op = "NewSevSeg" => (last.ret = "false" <=> phase = "nil")
        /\ phase = "nil" =>
              /\ last = Call("NewSevSeg", "false")
              /\ \A i \in 1..DigitCount : digitPins[i] = "unconfigured"
              /\ \A i \in 1..SegmentCount : segmentPins[i] = "unconfigured"
        /\ (last.op = "NewSevSeg" /\ last.ret = "true") =>
              /\ phase = "ready"
              /\ updatedDisplay = [i \in 1..DigitCount |-> BLANK]
              /\ brightness = 100 /\ enabled /\ currentDigitToRefresh = 0
              /\ \A i \in 1..DigitCount : digitPins[i] = DigitOff(config)
              /\ \A i \in 1..SegmentCount : segmentPins[i] = SegmentOff(config)

C1_Witness ==
    phase = "nil" /\ DigitCount > 0 /\ SegmentCount = 9

(* C2: SetNumber(v) returns true if and only if the decimal digits of |v|, *)
(* plus one slot for the minus sign when v < 0, are at most digitCount,    *)
(* for every int32 v including the most negative one.                      *)
C2_SetNumberFitsIff ==
    last.op = "SetNumber" =>
        (last.ret = "true" <=> DecimalWidth(last.num) <= DigitCount)

(* C3: after a successful SetNumber(v) buffer index k holds the glyph of   *)
(* the k-th decimal digit of |v|, the minus glyph follows the most         *)
(* significant digit when v < 0, and every higher index holds blank (the   *)
(* '0' glyph with leading zeros).                                          *)
C3_SetNumberLayout ==
    (last.op = "SetNumber" /\ last.ret = "true") =>
        /\ DecimalWidth(last.num) <= DigitCount
        /\ \A k \in 0..(DigitCount - 1) :
              updatedDisplay[k + 1] = NumberGlyph(last.num, k)

(* C4: whenever one of the eight numeric and segment setters returns       *)
(* false, the display buffer is what it was before the call.               *)
C4_FailedSetterKeepsBuffer ==
    [][(last'.op \in NumericSetters /\ last'.ret = "false")
          => updatedDisplay' = updatedDisplay]_vars

C4_Witness ==
    /\ last.op \in NumericSetters
    /\ last.ret = "false"
    /\ \E i \in 1..DigitCount : updatedDisplay[i] \notin {BLANK, ZERO}

(* C5: when SetText returns false (an unsupported character), the display  *)
(* buffer, the text pattern and the scroll position are unchanged.         *)
C5_FailedSetTextKeepsState ==
    [][(last'.op = "SetText" /\ last'.ret = "false")
          => UNCHANGED <<updatedDisplay, textPattern, scrollPosition>>]_vars

(* C6: SetHex(v) returns true if and only if the hexadecimal digits of v   *)
(* are at most digitCount, and on success buffer index k holds the glyph   *)
(* of the k-th hexadecimal digit of v, for every uint32 v.                 *)
C6_SetHexFitsAndShows ==
    last.op = "SetHex" =>
        /\ last.ret = "true" <=> HexWidth(last.hex) <= DigitCount
        /\ last.ret = "true" =>
              \A k \in 0..(HexWidth(last.hex) - 1) :
                  /\ k < DigitCount
                  /\ updatedDisplay[k + 1] = getSegmentCode(HexDigit(last.hex, k))

(* C7: after a successful SetNumberWithMultipleDecimals(v, P) (or          *)
(* SetNumberWithDecimal) on an 8-segment-pin display the buffer is the     *)
(* buffer of a successful SetNumber(v) with the decimal-point bit set at   *)
(* exactly the indices of P; SetNumberWithDecimal(1234, 1) on 4 digits     *)
(* gives 4, 3|DP, 2, 1.                                                    *)
C7_DecimalsOverSetNumber ==
    (/\ last.op \in {"SetNumberWithDecimal", "SetNumberWithMultipleDecimals"}
     /\ last.ret = "true") =>
        LET base == SetNumberOn(updatedDisplay, last.num)
            P    == {last.pos[i] : i \in 1..Len(last.pos)}
        IN  /\ SegmentCount = 8
            /\ base.ret = "true"
            /\ \A k \in 0..(DigitCount - 1) :
                  /\ ~HasBit(base.buf[k + 1], 7)
                  /\ HasBit(updatedDisplay[k + 1], 7) <=> k \in P
                  /\ updatedDisplay[k + 1] =
                        base.buf[k + 1] + (IF k \in P THEN POINT ELSE 0)
            /\ (last.num = 1234 /\ last.pos = <<1>> /\ DigitCount = 4) =>
                  updatedDisplay = <<102, 79 + 128, 91, 6>>

C7_Witness ==
    /\ last.op = "SetNumberWithDecimal"
    /\ last.ret = "true"
    /\ last.num = 1234 /\ last.pos = <<1>> /\ DigitCount = 4

(* C8: a decimal-point call (and SetTemperature, which derives the         *)
(* position decimalPlaces+1) either returns false or writes only inside    *)
(* the buffer: no position, digitCount included, is accessed outside it.   *)
C8_DecimalPointInsideBuffer ==
    last.op \in {"SetNumberWithDecimal", "SetNumberWithMultipleDecimals",
                 "SetTemperature"} =>
        last.ret \in {"true", "false"}

(* C9: precondition failures return false with the buffer unchanged: the   *)
(* decimal-point setters on 7 segment pins, SetTemperature below 2 digits, *)
(* SetTemperatureWithUnit below 3 digits, for every value argument.        *)
C9_PreconditionFailures ==
    [][(\/ last'.op \in DecimalPointSetters /\ SegmentCount = 7
        \/ last'.op = "SetTemperature" /\ DigitCount < 2
        \/ last'.op = "SetTemperatureWithUnit" /\ DigitCount < 3)
          => (last'.ret = "false" /\ updatedDisplay' = updatedDisplay)]_vars

C9_Witness ==
    /\ last.op = "SetNumberWithDecimal"
    /\ SegmentCount = 7
    /\ last.num = 1234 /\ last.pos = <<1>> /\ DigitCount = 4
    /\ last.ret = "false"
    /\ \E i \in 1..DigitCount : updatedDisplay[i] \notin {BLANK, ZERO}

(* C10: after a successful SetTemperature(t, dp), with N = t * 10^dp       *)
(* truncated: the degree glyph is at index 0, the k-th decimal digit of    *)
(* |N| at index k+1 (N = 0 being a single '0' at index 1), the minus glyph *)
(* after the most significant digit when N < 0, and for dp > 0 the         *)
(* decimal-point bit at index dp+1.  Stated for the decimal places whose   *)
(* scale 10^(dp+1) fits an int32.                                          *)
C10_TemperatureLayout ==
    (last.op = "SetTemperature" /\ last.ret = "true" /\ last.dp < 255) =>
        LET N == Quo32(last.temp * (10 ^ last.dp), FDen)
            w == Len(AbsDigits(N))
        IN  /\ updatedDisplay[1] = DEGREE
            /\ \A k \in 0..(w - 1) :
                  /\ k + 1 < DigitCount
                  /\ Glyph(updatedDisplay[k + 2]) = getSegmentCode(AbsDigits(N)[k + 1])
            /\ N < 0 => (w + 1 < DigitCount /\ Glyph(updatedDisplay[w + 2]) = MINUS)
            /\ last.dp > 0 =>
                  (last.dp + 1 < DigitCount /\ HasBit(updatedDisplay[last.dp + 2], 7))


(* C11: SetTemperatureWithUnit(t, dp, unit), with N = t * 10^dp truncated,  *)
(* succeeds whenever the digits of |N|, a sign slot when N < 0 and the two  *)
(* reserved slots fit the display (a decimal point needing the eighth       *)
(* segment pin), and a successful call leaves the unit glyph at index 0,    *)
(* the degree glyph at index 1, the k-th decimal digit of |N| at index k+2  *)
(* and, for dp > 0, the decimal-point bit at index dp+2.                    *)
C11_TemperatureWithUnitLayout ==
    (last.op = "SetTemperatureWithUnit" /\ last.dp < 255) =>
        LET N == Quo32(last.temp * (10 ^ last.dp), FDen)
            w == Len(AbsDigits(N))
        IN  /\ (/\ DecimalWidth(N) + 2 <= DigitCount
                /\ last.dp > 0 => (SegmentCount = 8 /\ last.dp + 2 < DigitCount))
               => last.ret = "true"
            /\ last.ret = "true" =>
                  /\ updatedDisplay[1] = (IF last.unit = Fahrenheit
                                          THEN getSegmentCode(15)
                                          ELSE getSegmentCode(12))
                  /\ updatedDisplay[2] = DEGREE
                  /\ \A k \in 0..(w - 1) :
                        /\ k + 2 < DigitCount
                        /\ Glyph(updatedDisplay[k + 3]) =
                               getSegmentCode(AbsDigits(N)[k + 1])
                  /\ last.dp > 0 =>
                        (last.dp + 2 < DigitCount
                           /\ HasBit(updatedDisplay[last.dp + 3], 7))


C13_ShortTextLayout ==
    (last.op = "SetText" /\ last.ret = "true" /\ Len(last.text) <= DigitCount) =>
        /\ \A i \in 0..(Len(last.text) - 1) :
              updatedDisplay[DigitCount - 1 - i + 1] =
                  charToSegmentPattern(last.text[i + 1]).seg
        /\ \A j \in 0..(DigitCount - 1 - Len(last.text)) :
              updatedDisplay[j + 1] = BLANK
        /\ (last.text = <<72, 105>> /\ DigitCount = 2) =>
              updatedDisplay = <<48, 118>>

C13_Witness ==
    /\ last.op = "SetText" /\ last.ret = "true"
    /\ last.text = <<72, 105>>
    /\ DigitCount = 3
    /\ updatedDisplay = <<BLANK, 48, 118>>


C15_ScrollLeftCycle ==
    (last.op = "ScrollTextLeft" /\ last.run > 0) =>
        LET patternLength == Len(textPattern)
            n == last.run
        IN  /\ n <= patternLength
            /\ scrollPosition = n % patternLength
            /\ updatedDisplay[DigitCount] = textPattern[(n % patternLength) + 1]
            /\ n < patternLength => scrollPosition # 0
            /\ n = patternLength =>
                  (scrollPosition = 0 /\ updatedDisplay = last.origin)

C15_Witness ==
    /\ last.op = "ScrollTextLeft"
    /\ Len(textPattern) = 9 /\ DigitCount = 4
    /\ last.run = 9
    /\ last.origin = <<getSegmentCode(21), getSegmentCode(21),
                       getSegmentCode(14), getSegmentCode(17)>>
    /\ updatedDisplay = last.origin

(* C16: ScrollTextLeft and ScrollTextRight change neither the buffer, the   *)
(* text pattern nor the scroll position while the pattern is no longer      *)
(* than the display, a display on which no text was ever set included.      *)
C16_ScrollIdleOnShortPattern ==
    [][(/\ last'.op \in {"ScrollTextLeft", "ScrollTextRight"}
        /\ Len(textPattern) <= DigitCount) =>
          UNCHANGED <<updatedDisplay, textPattern, scrollPosition>>]_vars

C16_Witness ==
    /\ last.op = "ScrollTextRight"
    /\ Len(textPattern) = DigitCount
    /\ DigitCount = 2
    /\ updatedDisplay = <<48, 118>>


\* The number of refresh ticks of the window that energized a digit line.
LitTicks == Cardinality({i \in 1..Len(control.ticks) : control.ticks[i]})

\* ceil(b / 10)
CeilTenth(b) == CHOOSE n \in 0..26 : 10 * n >= b /\ 10 * (n - 1) < b

(* C17: under software PWM, with brightness b in 0..100 set by              *)
(* SetBrightness and no On, Off, Toggle or SetBrightness since, any 10      *)
(* consecutive Refresh calls energize a digit line on exactly ceil(b/10)    *)
(* of them; no Refresh does for b = 0, every Refresh does for b = 100,      *)
(* exactly 5 of 10 do for b = 50.                                           *)
C17_SoftwarePWMDutyCycle ==
    (pwm = "SoftwarePWM" /\ control.op = "SetBrightness" /\ control.arg <= 100) =>
        /\ Len(control.ticks) = pwmPeriod => LitTicks = CeilTenth(control.arg)
        /\ control.arg = 0 => LitTicks = 0
        /\ control.arg = 100 => LitTicks = Len(control.ticks)
        /\ (control.arg = 50 /\ Len(control.ticks) = pwmPeriod) => LitTicks = 5

C17_Witness ==
    /\ pwm = "SoftwarePWM"
    /\ control.op = "SetBrightness" /\ control.arg = 50
    /\ Len(control.ticks) = pwmPeriod
    /\ control.ticks[1] /\ ~control.ticks[pwmPeriod]
    /\ LitTicks = 5

(* C18: after SetBrightness(b) with b > 100, whatever the brightness was    *)
(* before, the stored brightness is 100 and every Refresh that follows      *)
(* energizes a digit line.                                                  *)
C18_SetBrightnessClamps ==
    (control.op = "SetBrightness" /\ control.arg > 100) =>
        /\ brightness = 100
        /\ LitTicks = Len(control.ticks)

(* C19: after Off() or Toggle(false) no Refresh energizes a digit line      *)
(* until On(), Toggle(true) or SetBrightness with a non-zero value is       *)
(* called.                                                                  *)
C19_DarkAfterOff ==
    (control.op = "Off" \/ (control.op = "Toggle" /\ control.arg = 0)) =>
        LitTicks = 0

(* C20: On() enables the display and keeps the stored brightness, except    *)
(* that a stored brightness of 0 becomes 100; the Refresh calls after On()  *)
(* energize digit lines again: at least one of any 10 in a row, under       *)
(* software PWM exactly ceil(brightness/10) of them, all of them at         *)
(* brightness 100.                                                          *)
C20_OnRestoresBrightness ==
    control.op = "On" =>
        /\ brightness = (IF control.arg = 0 THEN 100 ELSE control.arg)
        /\ control.ticks = <<>> => enabled
        /\ Len(control.ticks) = pwmPeriod =>
              /\ LitTicks >= 1
              /\ pwm = "SoftwarePWM" => LitTicks = CeilTenth(brightness)
        /\ brightness = 100 => LitTicks = Len(control.ticks)

C20_Witness ==
    /\ control.op = "On" /\ control.arg = 0
    /\ brightness = 100
    /\ Len(control.ticks) = pwmPeriod
    /\ LitTicks = pwmPeriod


\* Off() or Toggle(false) was the last brightness-control call.
DarkRequested ==
    control.op = "Off" \/ (control.op = "Toggle" /\ control.arg = 0)

(* C21: at full brightness, as after construction, any digitCount           *)
(* consecutive Refresh calls energize every digit index exactly once, in    *)
(* the order cursor, cursor+1, ... modulo digitCount, and leave the cursor  *)
(* at the value it had before them.                                         *)
C21_FullBrightnessVisitsEveryDigit ==
    (brightness = 100 /\ ~DarkRequested /\ Len(control.lit) >= DigitCount) =>
        LET first == Len(control.lit) - DigitCount
        IN  \A j \in 1..DigitCount :
               control.lit[first + j] = (currentDigitToRefresh + j - 1) % DigitCount

C21_Witness ==
    /\ brightness = 100 /\ control.op = "none"
    /\ DigitCount = 3
    /\ Len(control.lit) = 5
    /\ control.lit = <<0, 1, 2, 0, 1>>
    /\ currentDigitToRefresh = 2


(* C22: every Refresh on a constructed display advances the refresh cursor  *)
(* by exactly one modulo digitCount, also on the ticks on which the         *)
(* brightness modulator or the enabled flag keeps the display dark.         *)
C22_CursorAdvancesOnEveryRefresh ==
    [][last'.op = "Refresh" =>
          currentDigitToRefresh' = (currentDigitToRefresh + 1) % DigitCount]_vars

(* C22, amended: a Refresh that energizes a digit line advances the cursor  *)
(* by exactly one modulo digitCount, and a Refresh on which the display is  *)
(* dark leaves the cursor where it was.                                     *)
C22_CursorAdvancesOnLitTicks ==
    [][last'.op = "Refresh" =>
          currentDigitToRefresh' =
              IF Energized(digitPins', config)
              THEN (currentDigitToRefresh + 1) % DigitCount
              ELSE currentDigitToRefresh]_vars

C22_Witness ==
    /\ last.op = "Refresh" /\ last.ret = "false"
    /\ brightness = 50
    /\ DigitCount = 3 /\ currentDigitToRefresh = 2
    /\ control.lit = <<0, 1, -1>>


\* The digit a Refresh that returned true has just served.
ServedDigit == (currentDigitToRefresh - 1 + DigitCount) % DigitCount

\* The pin levels after a Refresh that returned true: the served digit pin at
\* level digitActive and every other one at the opposite level, the segment
\* pin of every set bit of the served mask at segmentActive and every other
\* one at the opposite level.
PinsShow(digitActive, segmentActive) ==
    LET Other(level) == IF level = "high" THEN "low" ELSE "high"
    IN  /\ \A i \in 1..DigitCount :
              digitPins[i] = IF i = ServedDigit + 1 THEN digitActive
                             ELSE Other(digitActive)
        /\ \A i \in 1..SegmentCount :
              segmentPins[i] = IF HasBit(updatedDisplay[ServedDigit + 1], i - 1)
                               THEN segmentActive
                               ELSE Other(segmentActive)

(* C23: on a CommonCathode display Refresh drives the energized digit line  *)
(* high and each lit segment line high, the inactive lines low; on a        *)
(* CommonAnode display the energized digit line and the lit segment lines   *)
(* are low, the inactive lines high.                                        *)
C23_ActiveHighOnBothLines ==
    (last.op = "Refresh" /\ last.ret = "true") =>
        IF config = "CommonCathode" THEN PinsShow("high", "high")
        ELSE PinsShow("low", "low")

(* C23, amended: on a CommonCathode display Refresh drives the energized    *)
(* digit line low and each lit segment line high (the other digit lines     *)
(* high, the unlit segment lines low); on a CommonAnode display the         *)
(* energized digit line is high and the lit segment lines are low (the      *)
(* other digit lines low, the unlit segment lines high).                    *)
C23_DigitLowSegmentHighOnCathode ==
    (last.op = "Refresh" /\ last.ret = "true") =>
        IF config = "CommonCathode" THEN PinsShow("low", "high")
        ELSE PinsShow("high", "low")

C23_Witness ==
    /\ last.op = "Refresh" /\ last.ret = "true"
    /\ config = "CommonCathode"
    /\ DigitCount = 2
    /\ updatedDisplay[1] = 247
    /\ digitPins = <<"low", "high">>
    /\ segmentPins = <<"high", "high", "high", "low", "high", "high", "high", "high">>


\* Every digit pin is at the level that selects no digit.
DigitLinesInactive(pins) ==
    \A i \in 1..Len(pins) :
        pins[i] = IF config = "CommonCathode" THEN "high" ELSE "low"

\* Every segment pin is at the level that lights no segment.
SegmentLinesInactive(pins) ==
    \A i \in 1..Len(pins) :
        pins[i] = IF config = "CommonCathode" THEN "low" ELSE "high"

(* C24: after every Refresh on which the display is disabled, all digit     *)
(* lines are at their inactive level and all segment lines have been        *)
(* driven to their inactive level, whatever the previous tick drove them    *)
(* to.                                                                      *)
C24_DarkTickClearsAllLines ==
    (last.op = "Refresh" /\ last.ret = "false") =>
        (DigitLinesInactive(digitPins) /\ SegmentLinesInactive(segmentPins))

(* C24, amended: after every Refresh on which the display is disabled, all  *)
(* digit lines are at their inactive level and every segment line is at     *)
(* the level it had before the call.                                        *)
C24_DarkTickClearsDigitLinesOnly ==
    [][(last'.op = "Refresh" /\ last'.ret = "false") =>
          (DigitLinesInactive(digitPins') /\ segmentPins' = segmentPins)]_vars

C24_Witness ==
    /\ last.op = "Refresh" /\ last.ret = "false"
    /\ config = "CommonCathode"
    /\ DigitLinesInactive(digitPins)
    /\ segmentPins = <<"high", "high", "high", "low", "high", "high", "high", "high">>


(* C25: Clear() sets every buffer index to the blank mask whatever the      *)
(* buffer held, and a Clear() that follows a Clear() changes nothing: two   *)
(* calls in a row leave the display as one call does.                       *)
C25_ClearBlanksAndIsIdempotent ==
    [][last'.op = "Clear" =>
          /\ Len(updatedDisplay') = DigitCount
          /\ \A i \in 1..DigitCount : updatedDisplay'[i] = 0
          /\ UNCHANGED <<cfgVars, pinVars, refreshVars, textVars>>
          /\ last.op = "Clear" => UNCHANGED updatedDisplay]_vars

C25_Witness ==
    /\ last.op = "Clear"
    /\ DigitCount = 4
    /\ Len(textPattern) = 9 /\ scrollPosition = 3
    /\ updatedDisplay = <<0, 0, 0, 0>>


\* The characters the documentation lists: '0'-'9', 'A'-'Z', 'a'-'z', space,
\* '-', '.', '*' (shown as the degree sign) and '_'.
Documented(c) ==
    c \in (48..57) \cup (65..90) \cup (97..122) \cup {32, 45, 46, 42, 95}

\* The documented index of a listed character in the segment table.
TableIndex(c) ==
    IF c \in 48..57 THEN c - 48
    ELSE IF c \in 65..90 THEN 10 + (c - 65)
    ELSE IF c \in 97..122 THEN 10 + (c - 97)
    ELSE IF c = 32 THEN 36
    ELSE IF c = 45 THEN 37
    ELSE IF c = 46 THEN 38
    ELSE IF c = 42 THEN 39
    ELSE 40

ActiveDigitLines ==
    {i \in 1..DigitCount :
        digitPins[i] = IF config = "CommonCathode" THEN "low" ELSE "high"}

(* C27: in every state reached after construction by public operations      *)
(* (setters, scrolls, brightness calls, Off, On, Toggle, Refresh,            *)
(* DisplayTest) at most one digit line is at its active level, and right     *)
(* after construction and right after Off() none is.                         *)
C27_AtMostOneDigitLineActive ==
    phase = "ready" =>
        /\ Cardinality(ActiveDigitLines) <= 1
        /\ last.op \in {"NewSevSeg", "Off"} => ActiveDigitLines = {}

C27_Witness ==
    /\ last.op = "DisplayTest"
    /\ DigitCount = 2
    /\ ActiveDigitLines = {2}
    /\ Len(textPattern) = 2


(* C28: after every Refresh that energizes digit d, segment line i is at    *)
(* its active level if and only if bit i of buffer[d] is set, for every     *)
(* configured segment line; with 7 segment pins bit 7 of the mask is        *)
(* ignored and the seven lines follow bits 0..6.                            *)
C28_SegmentLinesFollowMask ==
    (last.op = "Refresh" /\ last.ret = "true") =>
        /\ Cardinality(ActiveDigitLines) = 1
        /\ \A d \in ActiveDigitLines :
              \A i \in 0..(SegmentCount - 1) :
                  (segmentPins[i + 1] =
                      IF config = "CommonCathode" THEN "high" ELSE "low")
                  <=> HasBit(updatedDisplay[d], i)

C28_Witness ==
    /\ last.op = "Refresh" /\ last.ret = "true"
    /\ SegmentCount = 7 /\ config = "CommonAnode"
    /\ DigitCount = 3
    /\ ActiveDigitLines = {1}
    /\ updatedDisplay = <<247, 91, 6>>
    /\ segmentPins = <<"low", "low", "low", "high", "low", "low", "low">>


(* C29: Refresh, SetBrightness, On, Off and Toggle leave the display        *)
(* buffer, the text pattern and the scroll position unchanged in every      *)
(* state.                                                                   *)
C29_BrightnessAndRefreshKeepContent ==
    [][last'.op \in {"Refresh", "SetBrightness", "On", "Off", "Toggle"} =>
          UNCHANGED <<updatedDisplay, textPattern, scrollPosition>>]_vars

C29_Witness ==
    /\ last.op = "Toggle" /\ ~enabled
    /\ DigitCount = 1
    /\ Len(textPattern) = 3 /\ scrollPosition = 1
    /\ updatedDisplay = <<48>>
    /\ Len(control.ticks) = 0


\* The indices (from 0) of the pins of a list that are at the active level.
ActiveLinesOf(pins) ==
    {i \in 0..(Len(pins) - 1) :
        pins[i + 1] = IF config = "CommonCathode" THEN "low" ELSE "high"}

(* C30: on a constructed display Refresh returns true exactly when the      *)
(* call energized one digit line, the one at the cursor, and advanced the   *)
(* cursor; it returns false exactly when the display is disabled on that    *)
(* tick, and then no digit line is energized and the cursor is where it     *)
(* was.                                                                     *)
C30_RefreshResult ==
    [][last'.op = "Refresh" =>
          /\ last'.ret \in {"true", "false"}
          /\ last'.ret = "true" <=> enabled'
          /\ last'.ret = "true" =>
                /\ ActiveLinesOf(digitPins') = {currentDigitToRefresh}
                /\ currentDigitToRefresh' = (currentDigitToRefresh + 1) % DigitCount
          /\ last'.ret = "false" =>
                /\ ActiveLinesOf(digitPins') = {}
                /\ currentDigitToRefresh' = currentDigitToRefresh]_vars

C30_Witness ==
    /\ last.op = "Refresh" /\ last.ret = "false"
    /\ brightness = 0 /\ ~enabled
    /\ DigitCount = 4 /\ currentDigitToRefresh = 3
    /\ ActiveLinesOf(digitPins) = {}
    /\ control.lit = <<-1, -1>>


(* C31: with a brightness of at least 1 and Refresh called forever with no  *)
(* other operation, every digit index 0..digitCount-1 is energized          *)
(* infinitely often, and the energizing calls serve the digits in the       *)
(* order cursor, cursor+1, ... modulo digitCount whatever dark ticks lie    *)
(* between them, so that between two energizations of a digit every other   *)
(* digit is energized exactly once.                                         *)
C31_EveryDigitLitInfinitelyOften ==
    /\ \A d \in 0..(MaxDigits - 1) :
          []<>(phase = "ready" => (d < DigitCount => ActiveLinesOf(digitPins) = {d}))
    /\ [][last'.op = "Refresh" =>
             \/ /\ ActiveLinesOf(digitPins') = {currentDigitToRefresh}
                /\ currentDigitToRefresh' = (currentDigitToRefresh + 1) % DigitCount
             \/ /\ ActiveLinesOf(digitPins') = {}
                /\ currentDigitToRefresh' = currentDigitToRefresh]_vars

C31_Witness ==
    /\ last.op = "Refresh" /\ last.ret = "true"
    /\ pwm = "SoftwarePWM"
    /\ control.op = "SetBrightness" /\ control.arg = 10 /\ brightness = 10
    /\ DigitCount = 3
    /\ ActiveLinesOf(digitPins) = {2}
    /\ currentDigitToRefresh = 0
    /\ Len(control.lit) = pwmPeriod


\* The buffer was replaced as a whole by the latest call.
ReplacedWholesale ==
    \/ last.op = "Clear"
    \/ last.op \in {"SetNumber", "SetHex"} /\ last.ret = "true"
    \/ last.op = "SetSegment" /\ last.ret = "true" /\ Len(last.pat) = DigitCount

ScrollCalls == {"ScrollTextLeft", "ScrollTextRight"}

\* The window of `pattern' at `scroll': the character at scroll + i is shown
\* on digit digitCount-1-i.
Window(pattern, scroll) ==
    [k \in 1..DigitCount |->
        pattern[((scroll + DigitCount - k) % Len(pattern)) + 1]]

(* C32: once the buffer has been replaced wholesale by Clear, SetNumber,    *)
(* SetHex or a full-width SetSegment after an earlier long SetText, a       *)
(* ScrollTextLeft or ScrollTextRight that follows leaves the buffer as the  *)
(* replacing call left it.                                                  *)
C32_ScrollKeepsReplacedBuffer ==
    [][(/\ ReplacedWholesale
        /\ Len(textPattern) > DigitCount
        /\ last'.op \in ScrollCalls)
       => updatedDisplay' = updatedDisplay]_vars

(* C32, what the code does: the scroll call after the replacement moves the *)
(* window and writes the old text back over the whole buffer.               *)
C32_ScrollRestoresOldText ==
    [][(/\ ReplacedWholesale
        /\ Len(textPattern) > DigitCount
        /\ last'.op \in ScrollCalls)
       => /\ updatedDisplay' = Window(textPattern, scrollPosition')
          /\ textPattern' = textPattern
          /\ scrollPosition' # scrollPosition]_vars

C32_Witness ==
    /\ last.op = "ScrollTextLeft"
    /\ last.from = <<0, <<BLANK, BLANK, BLANK, BLANK>>>>
    /\ Len(textPattern) = 9
    /\ scrollPosition = 1
    /\ updatedDisplay # <<BLANK, BLANK, BLANK, BLANK>>


(* C33: for a text pattern longer than digitCount, ScrollTextLeft followed  *)
(* by ScrollTextRight, and ScrollTextRight followed by ScrollTextLeft,      *)
(* leaves the scroll position and the buffer exactly as the pair found      *)
(* them, from every scroll position.                                        *)
C33_ScrollPairRestores ==
    (last.op \in ScrollCalls /\ last.pair # <<>>) =>
        /\ scrollPosition = last.pair[1]
        /\ updatedDisplay = last.pair[2]

(* C33, what the code does: the pair restores the scroll position from      *)
(* every position, and leaves the window of the pattern at that position;   *)
(* it restores the buffer when the buffer was showing that window.          *)
C33_ScrollPairRestoresWindow ==
    (last.op \in ScrollCalls /\ last.pair # <<>>) =>
        /\ scrollPosition = last.pair[1]
        /\ scrollPosition \in 0..(Len(textPattern) - 1)
        /\ updatedDisplay = Window(textPattern, scrollPosition)
        /\ last.pair[2] = Window(textPattern, last.pair[1])
               => updatedDisplay = last.pair[2]

\* Left then right from position patternLength-1, right then left from 0.
C33_Witness ==
    /\ Len(textPattern) = 9
    /\ last.op \in ScrollCalls /\ last.pair # <<>>
    /\ \/ /\ last.op = "ScrollTextRight"
          /\ last.pair[1] = 8 /\ last.from[1] = 0
       \/ /\ last.op = "ScrollTextLeft"
          /\ last.pair[1] = 0 /\ last.from[1] = 8
    /\ updatedDisplay = last.pair[2]


=============================================================================
